---- MODULE Spec2Model ----
(***************************************************************************)
(* Equilibrium solvers of GraphsCode.py: the four nested dibujar_grafica   *)
(* functions (goods market, money market, FX parity, DD-AA).               *)
(*                                                                         *)
(* Numbers.  A Python/numpy float is modelled by the real number it        *)
(* stands for, kept as an exact fraction <<n, d>> with d > 0 in lowest     *)
(* terms; the three non-finite numpy values are <<1, 0>> (inf),            *)
(* <<-1, 0>> (-inf) and <<0, 0>> (nan).  Rounding of the 53-bit mantissa   *)
(* is not modelled.  A division of two Python floats by zero raises        *)
(* ZeroDivisionError; a division of numpy arrays by zero gives inf or nan. *)
(***************************************************************************)
EXTENDS Integers, Sequences, FiniteSets, TLC

VARIABLES call, pc, out, sliders, m_fijo, plot_output, inicial

vars == <<call, pc, out, sliders, m_fijo, plot_output, inicial>>

(***************************************************************************)
(* Float arithmetic                                                        *)
(***************************************************************************)
Abs(n) == IF n < 0 THEN -n ELSE n

RECURSIVE Gcd(_, _)
Gcd(a, b) == IF b = 0 THEN a ELSE Gcd(b, a % b)

Norm(n, d) ==
    LET g == Gcd(Abs(n), Abs(d))
        s == IF d < 0 THEN -1 ELSE 1
    IN  <<s * (n \div g), s * (d \div g)>>

Q(n, d) == Norm(n, d)
Z(n) == <<n, 1>>

Zero == <<0, 1>>
One == <<1, 1>>
NaN == <<0, 0>>
Inf == <<1, 0>>
NegInf == <<-1, 0>>

IsFinite(x) == x[2] # 0
IsNaN(x) == x = NaN
IsZero(x) == x = Zero

RNeg(x) == <<-x[1], x[2]>>

\* x + y on finite floats, over the least common denominator
RAdd(x, y) ==
    LET g == Gcd(x[2], y[2])
    IN  Norm(x[1] * (y[2] \div g) + y[1] * (x[2] \div g), (x[2] \div g) * y[2])

RSub(x, y) == RAdd(x, RNeg(y))

\* x * y on finite floats, cross-reduced before multiplying
RMul(x, y) ==
    LET g1 == Gcd(Abs(x[1]), y[2])
        g2 == Gcd(Abs(y[1]), x[2])
    IN  IF x[1] = 0 \/ y[1] = 0 THEN Zero
        ELSE <<(x[1] \div g1) * (y[1] \div g2), (x[2] \div g2) * (y[2] \div g1)>>

\* x / y on finite floats, y # 0
RDiv(x, y) ==
    IF y[1] < 0 THEN RMul(x, <<-y[2], -y[1]>>) ELSE RMul(x, <<y[2], y[1]>>)

\* The order of two finite floats: -1, 0 or 1, by the continued fractions of
\* the two (no product is formed)
RECURSIVE Cmp(_, _)
Cmp(x, y) ==
    LET qx == x[1] \div x[2]
        qy == y[1] \div y[2]
        rx == x[1] % x[2]
        ry == y[1] % y[2]
    IN  IF qx # qy THEN (IF qx < qy THEN -1 ELSE 1)
        ELSE IF rx = 0 /\ ry = 0 THEN 0
        ELSE IF rx = 0 THEN -1
        ELSE IF ry = 0 THEN 1
        ELSE Cmp(<<y[2], ry>>, <<x[2], rx>>)

RLeq(x, y) == Cmp(x, y) <= 0
RLt(x, y) == Cmp(x, y) < 0

\* numpy x / y on a finite x: inf or nan on a zero divisor, no exception
NpDiv(x, y) ==
    IF y[1] # 0 THEN RDiv(x, y)
    ELSE IF x[1] > 0 THEN Inf
    ELSE IF x[1] < 0 THEN NegInf
    ELSE NaN

\* np.linspace(lo, hi, n)[i], 0 <= i < n
NpLinspace(lo, hi, n, i) == RAdd(lo, RMul(RSub(hi, lo), Q(i, n - 1)))

\* format(x, '.<dec>f'): the decimal the text shows (round half to even),
\* or the text inf, -inf, nan
Pow10(dec) == IF dec = 0 THEN 1 ELSE IF dec = 1 THEN 10 ELSE 100

Fmt(x, dec) ==
    IF ~IsFinite(x) THEN x
    ELSE LET p == Pow10(dec)
             q == x[1] \div x[2]
             r == x[1] % x[2]
             w == (r * p) \div x[2]
             f == (r * p) % x[2]
             lo == q * p + w
             up == IF 2 * f > x[2] THEN 1
                   ELSE IF 2 * f < x[2] THEN 0
                   ELSE lo % 2
         IN  Norm(lo + up, p)

(***************************************************************************)
(* Goods market: crear_grafica_mercado_bienes.dibujar_grafica              *)
(***************************************************************************)
bienes_c0 == Z(50)
bienes_c1 == Q(6, 10)
bienes_N == 100
Y_MAX_FIJO == 2500

\* 1 - c1 * (1 - t1), the divisor of line 74
bienes_denom(t1) == RSub(One, RMul(bienes_c1, RSub(One, t1)))

\* the multiplier with the tax rate applied to all of income: 1 / (1 - c1 * t1)
bienes_alpha_sin_complemento(t1) == RDiv(One, RSub(One, RMul(bienes_c1, t1)))

bienes_alpha(t1) == RDiv(One, bienes_denom(t1))

bienes_A(g0, i0, nx0) == RAdd(RAdd(RAdd(bienes_c0, i0), g0), nx0)

bienes_Y_eq(alpha, A) == RMul(alpha, A)

bienes_Y_range == [i \in 0..(bienes_N - 1) |-> NpLinspace(Zero, Z(Y_MAX_FIJO), bienes_N, i)]

bienes_DA(A, t1) ==
    [i \in 0..(bienes_N - 1) |->
        RAdd(A, RMul(RMul(bienes_c1, RSub(One, t1)), bienes_Y_range[i]))]

Raised(e) == [fault |-> e]

bienes_dibujar_grafica(g0, t1, i0, nx0) ==
    IF IsZero(bienes_denom(t1)) THEN Raised("ZeroDivisionError")
    ELSE LET alpha == bienes_alpha(t1)
             A == bienes_A(g0, i0, nx0)
             Y_eq == bienes_Y_eq(alpha, A)
         IN  [fault |-> "none",
              alpha |-> alpha,
              A |-> A,
              Y_eq |-> Y_eq,
              DA |-> bienes_DA(A, t1),
              marker |-> <<Y_eq, Y_eq>>,
              label |-> <<"Equilibrio: Y=", Fmt(Y_eq, 1)>>,
              title |-> <<"Multiplicador: ", Fmt(alpha, 2),
                          " | Ingreso de Equilibrio: ", Fmt(Y_eq, 1)>>]

(***************************************************************************)
(* Money market: crear_grafica_mercado_dinero.dibujar_grafica              *)
(***************************************************************************)
dinero_k == Q(5, 10)
dinero_h == Z(10)
dinero_N == 100
I_MAX_FIJO == 50

\* the real money supply as a product, Ms * P
dinero_Ms_real_producto(Ms, P) == RMul(Ms, P)

dinero_Ms_real(Ms, P) == RDiv(Ms, P)

dinero_i_eq(Y, Ms_real) == RDiv(RSub(RMul(dinero_k, Y), Ms_real), dinero_h)

dinero_i_range == [i \in 0..(dinero_N - 1) |-> NpLinspace(Zero, Z(I_MAX_FIJO), dinero_N, i)]

dinero_Md(Y) ==
    [i \in 0..(dinero_N - 1) |->
        RSub(RMul(dinero_k, Y), RMul(dinero_h, dinero_i_range[i]))]

dinero_dibujar_grafica(Ms, Y, P) ==
    IF IsZero(P) THEN Raised("ZeroDivisionError")
    ELSE LET Ms_real == dinero_Ms_real(Ms, P)
             i_eq == dinero_i_eq(Y, Ms_real)
         IN  [fault |-> "none",
              Ms_real |-> Ms_real,
              i_eq |-> i_eq,
              Md |-> dinero_Md(Y),
              marker |-> <<Ms_real, i_eq>>,
              label |-> <<"Equilibrio: i=", Fmt(i_eq, 2)>>,
              title |-> <<"Tasa de Interes de Equilibrio: ", Fmt(i_eq, 2), "%">>]

(***************************************************************************)
(* FX parity: crear_grafica_mercado_divisas.dibujar_grafica; m is the      *)
(* argument of crear_grafica_mercado_divisas the closure reads             *)
(***************************************************************************)
divisas_N == 100
divisas_E_MAX == 10

divisas_E_range == [i \in 0..(divisas_N - 1) |-> NpLinspace(Zero, Z(divisas_E_MAX), divisas_N, i)]

divisas_r_ext_line(R_star_val, Ee_val, m) ==
    [i \in 0..(divisas_N - 1) |->
        RAdd(R_star_val, RMul(m, RSub(Ee_val, divisas_E_range[i])))]

\* the inversion with the sign of the rate gap flipped: Ee + (R - R*) / m
divisas_E_eq_signo(R_val, R_star_val, Ee_val, m) ==
    IF m # Zero
    THEN RAdd(Ee_val, RDiv(RSub(R_val, R_star_val), m))
    ELSE NaN

\* the flat line answered with the expected rate instead of nan
divisas_E_eq_sin_nan(R_val, R_star_val, Ee_val, m) ==
    IF m # Zero
    THEN RSub(Ee_val, RDiv(RSub(R_val, R_star_val), m))
    ELSE Ee_val

divisas_E_eq(R_val, R_star_val, Ee_val, m) ==
    IF m # Zero
    THEN RSub(Ee_val, RDiv(RSub(R_val, R_star_val), m))
    ELSE NaN

InFrame(x) == RLeq(Zero, x) /\ RLeq(x, Z(divisas_E_MAX))

divisas_visible(r_ext_line) == [i \in 0..(divisas_N - 1) |-> InFrame(r_ext_line[i])]

\* the indices of the curve that ax.plot draws (lines 385-392)
divisas_plotted(visible) ==
    IF \E i \in 0..(divisas_N - 1) : visible[i]
    THEN { i \in 0..(divisas_N - 1) : visible[i] }
    ELSE 0..(divisas_N - 1)

divisas_marker(R_val, E_eq) ==
    IF ~IsNaN(E_eq) /\ InFrame(E_eq) /\ InFrame(R_val)
    THEN [drawn |-> TRUE, at |-> <<R_val, E_eq>>,
          label |-> <<"Equilibrio (E=", Fmt(E_eq, 2), ")">>]
    ELSE [drawn |-> FALSE]

divisas_dibujar_grafica(R_val, R_star_val, Ee_val, m) ==
    LET r_ext_line == divisas_r_ext_line(R_star_val, Ee_val, m)
        E_eq == divisas_E_eq(R_val, R_star_val, Ee_val, m)
    IN  [fault |-> "none",
         r_ext_line |-> r_ext_line,
         E_eq |-> E_eq,
         plotted |-> divisas_plotted(divisas_visible(r_ext_line)),
         vline |-> R_val,
         marker |-> divisas_marker(R_val, E_eq),
         title |-> <<"Equilibrio en el Mercado de Divisas (Recta)">>]

(***************************************************************************)
(* numpy on arrays, as line 517 uses it                                    *)
(***************************************************************************)
\* np.sign(a - b) of two floats: -1, 0, 1, or nan where a - b is nan
NpSignOfDiff(a, b) ==
    IF IsNaN(a) \/ IsNaN(b) THEN NaN
    ELSE IF IsFinite(a) /\ IsFinite(b) THEN Z(Cmp(a, b))
    ELSE IF ~IsFinite(a) /\ ~IsFinite(b) THEN (IF a = b THEN NaN ELSE Z(a[1]))
    ELSE IF IsFinite(a) THEN Z(-b[1])
    ELSE Z(a[1])

\* np.diff(s) of an array s of n signs
NpDiff(s, n) ==
    [i \in 0..(n - 2) |->
        IF IsNaN(s[i + 1]) \/ IsNaN(s[i]) THEN NaN ELSE RSub(s[i + 1], s[i])]

\* np.argwhere(a).flatten() of an array a of n floats: the indices of its
\* nonzero elements (nan is nonzero), ascending
NpArgwhere(a, n) ==
    SelectSeq([j \in 1..n |-> j - 1], LAMBDA i : a[i] # Zero)

(***************************************************************************)
(* DD-AA: crear_grafica_dd_aa.dibujar_grafica                              *)
(***************************************************************************)
ddaa_c0 == Z(50)
ddaa_c1 == Q(6, 10)
ddaa_I0 == Z(150)
ddaa_NX0 == Z(-50)
ddaa_q == Z(100)
ddaa_m == Q(1, 10)
ddaa_k == Q(25, 100)
ddaa_h == Z(20)
ddaa_N == 200
ddaa_Y_MIN == 500
ddaa_Y_MAX == 2500

\* the grid without its end point, np.linspace(500, 2500, 200, endpoint=False):
\* steps of 10
ddaa_Y_range_sin_extremo == [i \in 0..(ddaa_N - 1) |-> Z(ddaa_Y_MIN + 10 * i)]

ddaa_Y_range == [i \in 0..(ddaa_N - 1) |-> NpLinspace(Z(ddaa_Y_MIN), Z(ddaa_Y_MAX), ddaa_N, i)]

ddaa_multiplicador_inv(T) == RAdd(RSub(One, RMul(ddaa_c1, RSub(One, T))), ddaa_m)

\* autonomous spending taken from the G of the invocation before this one
ddaa_gasto_autonomo_previo(G) ==
    RAdd(RAdd(RAdd(ddaa_c0, ddaa_I0), IF call.fn = "ddaa" THEN call.args[1] ELSE G), ddaa_NX0)

ddaa_gasto_autonomo(G) == RAdd(RAdd(RAdd(ddaa_c0, ddaa_I0), G), ddaa_NX0)

ddaa_E_dd(G, T) ==
    [i \in 0..(ddaa_N - 1) |->
        RDiv(RSub(RMul(ddaa_Y_range[i], ddaa_multiplicador_inv(T)), ddaa_gasto_autonomo(G)),
             ddaa_q)]

\* R = (k * Y_range - (Ms / P)) / h, P # 0
ddaa_R(Ms, P) ==
    [i \in 0..(ddaa_N - 1) |->
        RDiv(RSub(RMul(ddaa_k, ddaa_Y_range[i]), RDiv(Ms, P)), ddaa_h)]

\* 1 + (R/100) - (R_star/100), the divisor of line 513
ddaa_den(R, R_star) ==
    [i \in 0..(ddaa_N - 1) |->
        RSub(RAdd(One, RDiv(R[i], Z(100))), RDiv(R_star, Z(100)))]

ddaa_E_aa(Ee, den) == [i \in 0..(ddaa_N - 1) |-> NpDiv(Ee, den[i])]

ddaa_idx(E_dd, E_aa) ==
    NpArgwhere(NpDiff([i \in 0..(ddaa_N - 1) |-> NpSignOfDiff(E_dd[i], E_aa[i])], ddaa_N),
               ddaa_N - 1)

\* the last sign change instead of the first: idx[-1]
ddaa_equilibrio_ultimo(idx, E_dd) ==
    IF Len(idx) > 0
    THEN [Y_eq |-> ddaa_Y_range[idx[Len(idx)]],
          E_eq |-> E_dd[idx[Len(idx)]],
          eq_label |-> <<"Equilibrio (Y=", Fmt(ddaa_Y_range[idx[Len(idx)]], 1),
                         ", E=", Fmt(E_dd[idx[Len(idx)]], 2), ")">>]
    ELSE [Y_eq |-> NaN, E_eq |-> NaN, eq_label |-> <<"Equilibrio no encontrado">>]

\* the end of the grid reported when no sign change is found
ddaa_equilibrio_extrapola(idx, E_dd) ==
    LET i == IF Len(idx) > 0 THEN idx[1] ELSE ddaa_N - 1
    IN  [Y_eq |-> ddaa_Y_range[i],
         E_eq |-> E_dd[i],
         eq_label |-> <<"Equilibrio (Y=", Fmt(ddaa_Y_range[i], 1),
                        ", E=", Fmt(E_dd[i], 2), ")">>]

\* the index counted from the end of the arrays: Y_range[-idx[0] - 1]
ddaa_equilibrio_reves(idx, E_dd) ==
    IF Len(idx) > 0
    THEN [Y_eq |-> ddaa_Y_range[ddaa_N - 1 - idx[1]],
          E_eq |-> E_dd[ddaa_N - 1 - idx[1]],
          eq_label |-> <<"Equilibrio (Y=", Fmt(ddaa_Y_range[ddaa_N - 1 - idx[1]], 1),
                         ", E=", Fmt(E_dd[ddaa_N - 1 - idx[1]], 2), ")">>]
    ELSE [Y_eq |-> NaN, E_eq |-> NaN, eq_label |-> <<"Equilibrio no encontrado">>]

\* the sample after the sign change instead of the one before: idx[0] + 1
ddaa_equilibrio_siguiente(idx, E_dd) ==
    IF Len(idx) > 0
    THEN [Y_eq |-> ddaa_Y_range[idx[1] + 1],
          E_eq |-> E_dd[idx[1] + 1],
          eq_label |-> <<"Equilibrio (Y=", Fmt(ddaa_Y_range[idx[1] + 1], 1),
                         ", E=", Fmt(E_dd[idx[1] + 1], 2), ")">>]
    ELSE [Y_eq |-> NaN, E_eq |-> NaN, eq_label |-> <<"Equilibrio no encontrado">>]

\* lines 518-524: Y_eq, E_eq, eq_label
ddaa_equilibrio(idx, E_dd) ==
    IF Len(idx) > 0
    THEN [Y_eq |-> ddaa_Y_range[idx[1]],
          E_eq |-> E_dd[idx[1]],
          eq_label |-> <<"Equilibrio (Y=", Fmt(ddaa_Y_range[idx[1]], 1),
                         ", E=", Fmt(E_dd[idx[1]], 2), ")">>]
    ELSE [Y_eq |-> NaN, E_eq |-> NaN, eq_label |-> <<"Equilibrio no encontrado">>]

\* lines 534-537
ddaa_marker(eq) ==
    IF ~IsNaN(eq.Y_eq)
    THEN [drawn |-> TRUE, at |-> <<eq.Y_eq, eq.E_eq>>, label |-> eq.eq_label]
    ELSE [drawn |-> FALSE]

ddaa_dibujar_grafica(G, T, Ms, P, R_star, Ee) ==
    IF IsZero(P) THEN Raised("ZeroDivisionError")
    ELSE LET E_dd == ddaa_E_dd(G, T)
             den == ddaa_den(ddaa_R(Ms, P), R_star)
             E_aa == ddaa_E_aa(Ee, den)
             idx == ddaa_idx(E_dd, E_aa)
             eq == ddaa_equilibrio(idx, E_dd)
         IN  [fault |-> "none",
              E_dd |-> E_dd,
              E_aa |-> E_aa,
              idx |-> idx,
              Y_eq |-> eq.Y_eq,
              E_eq |-> eq.E_eq,
              eq_label |-> eq.eq_label,
              marker |-> ddaa_marker(eq),
              title |-> <<"Equilibrio del Modelo DD-AA">>]

(***************************************************************************)
(* IS-LM joint solver.  Its file is not among the sources; the solver is   *)
(* written from section 4.5 of the specification and the parameter names   *)
(* of section 3, read as the linear IS-LM system                           *)
(*     IS:  Y = c0 + c1 * (Y - T) + I0 - b * i + G                         *)
(*     LM:  M / P = k * Y - h * i                                          *)
(* solved in closed form, once with (M0, G0) and once after the shocks.    *)
(***************************************************************************)
islm_A(c0, c1, T, I0, G) == RAdd(RAdd(RSub(c0, RMul(c1, T)), I0), G)

islm_Y_eq(c0, c1, T, I0, b, k, h, P, M, G) ==
    RDiv(RAdd(islm_A(c0, c1, T, I0, G), RMul(RDiv(b, h), RDiv(M, P))),
         RAdd(RSub(One, c1), RDiv(RMul(b, k), h)))

islm_i_eq(k, h, P, M, Y) == RDiv(RSub(RMul(k, Y), RDiv(M, P)), h)

\* the shock taken as the new money supply instead of a change of it
islm_M_final_sustituye(M0, shock_monetario) == shock_monetario

islm_M_final(M0, shock_monetario) == RAdd(M0, shock_monetario)

islm_G_final(G0, shock_fiscal) == RAdd(G0, shock_fiscal)

islm_resolver(c0, c1, T, I0, b, k, h, P, M0, G0, shock_monetario, shock_fiscal) ==
    LET Y_eq_base == islm_Y_eq(c0, c1, T, I0, b, k, h, P, M0, G0)
        M_final == islm_M_final(M0, shock_monetario)
        G_final == islm_G_final(G0, shock_fiscal)
        Y_eq_final == islm_Y_eq(c0, c1, T, I0, b, k, h, P, M_final, G_final)
    IN  [fault |-> "none",
         Y_eq_base |-> Y_eq_base,
         i_eq_base |-> islm_i_eq(k, h, P, M0, Y_eq_base),
         Y_eq_final |-> Y_eq_final,
         i_eq_final |-> islm_i_eq(k, h, P, M_final, Y_eq_final)]

(***************************************************************************)
(* Calls                                                                   *)
(***************************************************************************)
NumG0 == 2

bienes_Calls ==
    { [fn |-> "bienes", args |-> <<g0, t1, i0, nx0>>] :
        g0 \in { Z(100 * j) : j \in 1..(NumG0 + 1) },
        t1 \in { Q(-2, 3), Zero, Q(1, 10), Q(1, 5), Q(7, 20), Q(1, 2), One },
        i0 \in { Z(50), Z(150) },
        nx0 \in { Z(-50), Z(100) } }

NumMs == 2

dinero_Calls ==
    { [fn |-> "dinero", args |-> <<Ms, Y, P>>] :
        Ms \in { Z(50 + 100 * j) : j \in 0..NumMs },
        Y \in { Z(500), Z(800), Z(1500) },
        P \in { Zero, Q(1, 2), One, Q(3, 2), Z(2) } }

NumR == 2

divisas_Calls ==
    { [fn |-> "divisas", args |-> <<R, R_star, Ee, m>>] :
        R \in { Z(1 + 4 * j) : j \in 0..NumR },
        R_star \in { One, Z(5), Z(8) },
        Ee \in { Q(1, 2), One, Q(5, 2) },
        m \in { Zero, Z(2), Z(-1), Q(1, 2) } }

NumG == 1

DDAA(G, T, Ms, P, R_star, Ee) == [fn |-> "ddaa", args |-> <<G, T, Ms, P, R_star, Ee>>]

ddaa_Calls ==
    { DDAA(G, T, Ms, P, R_star, Ee) :
        G \in { Z(100 + 200 * j) : j \in 0..NumG },
        T \in { Q(1, 10), Q(1, 2) },
        Ms \in { Z(200), Z(400) },
        P \in { Zero, Q(1, 2), One, Z(2) },
        R_star \in { One, Z(10) },
        Ee \in { Q(1, 2), One, Q(3, 2) } }
    \cup { DDAA(Z(200), Q(1, 5), Z(300), One, Z(5), One),
           DDAA(Z(200), Q(1, 5), Z(300), One, Z(100), One),
           DDAA(Z(200), Q(1, 5), Z(250), Z(2), Z(100), One),
           DDAA(Z(200), Q(1, 5), Z(250), Z(2), Z(100), Zero),
           DDAA(Z(200), Q(1, 5), Z(300), One, Z(200), One),
           DDAA(Zero, Z(400), Z(300), One, Z(5), Z(2000)),
           DDAA(Z(200), Q(1, 5), Z(300), One, Z(5), Q(267, 20)),
           DDAA(Q(18615, 2), Q(33, 40), Q(54975, 199), One, Z(5), Q(-398, 5)) }

NumShock == 1
islm_Calls == { [fn |-> "islm",
                 args |-> <<Z(50), c1, Z(100), Z(150), b, Q(1, 2), h, P, M0, Z(200),
                            shock_monetario, shock_fiscal>>] :
    c1 \in { Q(3, 5), Q(4, 5) }, b \in { Z(10), Z(20) }, h \in { Z(10), Z(20) },
    P \in { One, Z(2) }, M0 \in { Z(150), Z(300) },
    shock_monetario \in { Z(50 * j) : j \in (0 - NumShock)..NumShock },
    shock_fiscal \in { Zero, Z(100) } }

Calls == bienes_Calls \cup dinero_Calls \cup divisas_Calls \cup ddaa_Calls \cup islm_Calls

Pending == [fault |-> "pending"]

\* no slope in the closure: only crear_grafica_mercado_divisas takes m
NoM == <<>>

Init ==
    /\ call \in Calls
    /\ pc = "called"
    /\ out = Pending
    /\ sliders = <<>>
    /\ m_fijo = NoM
    /\ plot_output = <<>>
    /\ inicial = Pending

DibujarBienes ==
    /\ pc = "called"
    /\ call.fn = "bienes"
    /\ out' = bienes_dibujar_grafica(call.args[1], call.args[2], call.args[3], call.args[4])
    /\ pc' = "drawn"
    /\ plot_output' = <<out'>>
    /\ UNCHANGED <<call, sliders, m_fijo, inicial>>

DibujarDinero ==
    /\ pc = "called"
    /\ call.fn = "dinero"
    /\ out' = dinero_dibujar_grafica(call.args[1], call.args[2], call.args[3])
    /\ pc' = "drawn"
    /\ plot_output' = <<out'>>
    /\ UNCHANGED <<call, sliders, m_fijo, inicial>>

DibujarDivisas ==
    /\ pc = "called"
    /\ call.fn = "divisas"
    /\ out' = divisas_dibujar_grafica(call.args[1], call.args[2], call.args[3], call.args[4])
    /\ pc' = "drawn"
    /\ plot_output' = <<out'>>
    /\ UNCHANGED <<call, sliders, m_fijo, inicial>>

DibujarDDAA ==
    /\ pc = "called"
    /\ call.fn = "ddaa"
    /\ out' = ddaa_dibujar_grafica(call.args[1], call.args[2], call.args[3],
                                   call.args[4], call.args[5], call.args[6])
    /\ pc' = "drawn"
    /\ plot_output' = <<out'>>
    /\ UNCHANGED <<call, sliders, m_fijo, inicial>>

ResolverISLM ==
    /\ pc = "called"
    /\ call.fn = "islm"
    /\ out' = islm_resolver(call.args[1], call.args[2], call.args[3], call.args[4],
                            call.args[5], call.args[6], call.args[7], call.args[8],
                            call.args[9], call.args[10], call.args[11], call.args[12])
    /\ pc' = "drawn"
    /\ plot_output' = <<out'>>
    /\ UNCHANGED <<call, sliders, m_fijo, inicial>>

Next == DibujarBienes \/ DibujarDinero \/ DibujarDivisas \/ DibujarDDAA \/ ResolverISLM

Spec == Init /\ [][Next]_vars

(***************************************************************************)
(* The four interfaces: sliders, the output widget and the observers.      *)
(* A FloatSlider holds a value within [min, max]; observe(names='value')   *)
(* calls the handler when a slider's value changes.                        *)
(***************************************************************************)
\* lines 110-115
bienes_actualizar_grafica(s) == [fn |-> "bienes", args |-> <<s[1], s[2], s[3], s[4]>>]

\* the first two slider values handed over in the wrong order
dinero_actualizar_grafica_permutado(s) == [fn |-> "dinero", args |-> <<s[2], s[1], s[3]>>]

\* lines 251-255
dinero_actualizar_grafica(s) == [fn |-> "dinero", args |-> <<s[1], s[2], s[3]>>]

\* lines 418-419; dibujar_grafica reads m from the enclosing call
divisas_on_value_change(s, mm) == [fn |-> "divisas", args |-> <<s[1], s[2], s[3], mm>>]

\* lines 553-555
ddaa_on_value_change(s) == DDAA(s[1], s[2], s[3], s[4], s[5], s[6])

\* slider values within the ranges of lines 39-57, 182-195, 341-353, 470-479
bienes_valores == << { Z(100), Z(200), Z(300) }, { Q(1, 10), Q(1, 5), Q(1, 2) },
                     { Z(50), Z(150) }, { Z(-50), Z(100) } >>
dinero_valores == << { Z(50), Z(150), Z(250) }, { Z(500), Z(800), Z(1500) },
                     { One, Q(3, 2), Z(2) } >>
divisas_valores == << { One, Z(5), Z(8) }, { One, Z(5), Z(8) }, { Q(1, 2), One, Q(5, 2) } >>
ddaa_valores == << { Z(200), Z(300) }, { Q(1, 5), Q(1, 2) }, { Z(300), Z(400) },
                   { One, Z(2) }, { Z(5), Z(10) }, { One, Q(3, 2) } >>

\* the constructor calls: initial slider values and, for the FX interface, m
Interfaces ==
    { [fn |-> "bienes", sliders |-> v, m |-> NoM] :
        v \in { <<Z(200), Q(1, 5), Z(150), Z(100)>>, <<Z(100), Q(1, 2), Z(50), Z(-50)>> } }
    \cup { [fn |-> "dinero", sliders |-> v, m |-> NoM] :
        v \in { <<Z(150), Z(800), One>>, <<Z(250), Z(500), Z(2)>> } }
    \cup { [fn |-> "divisas", sliders |-> v, m |-> mm] :
        v \in { <<Z(5), Z(5), One>>, <<One, Z(8), Q(5, 2)>> },
        mm \in { Z(2), Q(1, 2), Zero } }
    \cup { [fn |-> "ddaa", sliders |-> <<Z(200), Q(1, 5), Z(300), One, Z(5), One>>,
            m |-> NoM] }

\* the call the interface's handler makes from the slider values
Handler(fn, s, mm) ==
    CASE fn = "bienes" -> bienes_actualizar_grafica(s)
      [] fn = "dinero" -> dinero_actualizar_grafica(s)
      [] fn = "divisas" -> divisas_on_value_change(s, mm)
      [] fn = "ddaa" -> ddaa_on_value_change(s)

dibujar_grafica(c) ==
    CASE c.fn = "bienes" ->
            bienes_dibujar_grafica(c.args[1], c.args[2], c.args[3], c.args[4])
      [] c.fn = "dinero" -> dinero_dibujar_grafica(c.args[1], c.args[2], c.args[3])
      [] c.fn = "divisas" ->
            divisas_dibujar_grafica(c.args[1], c.args[2], c.args[3], c.args[4])
      [] c.fn = "ddaa" ->
            ddaa_dibujar_grafica(c.args[1], c.args[2], c.args[3],
                                 c.args[4], c.args[5], c.args[6])

\* construction: the sliders take their initial values and the chart is
\* drawn once (lines 138, 278, 436, 581)
UIInit ==
    \E c \in Interfaces :
        /\ sliders = c.sliders
        /\ m_fijo = c.m
        /\ call = Handler(c.fn, sliders, m_fijo)
        /\ out = dibujar_grafica(call)
        /\ plot_output = <<out>>
        /\ inicial = [call |-> call, out |-> out]
        /\ pc = "drawn"

\* slider j of the interface takes the new value v
Mover(valores, j, v) ==
    /\ v \in valores[j]
    /\ v # sliders[j]
    /\ sliders' = [sliders EXCEPT ![j] = v]

ActualizarBienes ==
    /\ pc # "called"
    /\ call.fn = "bienes"
    /\ \E j \in 1..4 : \E v \in bienes_valores[j] : Mover(bienes_valores, j, v)
    /\ call' = bienes_actualizar_grafica(sliders')
    /\ out' = bienes_dibujar_grafica(call'.args[1], call'.args[2], call'.args[3],
                                     call'.args[4])
    /\ plot_output' = <<out'>>
    /\ pc' = "redrawn"
    /\ UNCHANGED <<m_fijo, inicial>>

ActualizarDinero ==
    /\ pc # "called"
    /\ call.fn = "dinero"
    /\ \E j \in 1..3 : \E v \in dinero_valores[j] : Mover(dinero_valores, j, v)
    /\ call' = dinero_actualizar_grafica(sliders')
    /\ out' = dinero_dibujar_grafica(call'.args[1], call'.args[2], call'.args[3])
    /\ plot_output' = <<out'>>
    /\ pc' = "redrawn"
    /\ UNCHANGED <<m_fijo, inicial>>

CambioDivisas ==
    /\ pc # "called"
    /\ call.fn = "divisas"
    /\ \E j \in 1..3 : \E v \in divisas_valores[j] : Mover(divisas_valores, j, v)
    /\ call' = divisas_on_value_change(sliders', m_fijo)
    /\ out' = divisas_dibujar_grafica(call'.args[1], call'.args[2], call'.args[3],
                                      call'.args[4])
    /\ plot_output' = <<out'>>
    /\ pc' = "redrawn"
    /\ UNCHANGED <<m_fijo, inicial>>

CambioDDAA ==
    /\ pc # "called"
    /\ call.fn = "ddaa"
    /\ \E j \in 1..6 : \E v \in ddaa_valores[j] : Mover(ddaa_valores, j, v)
    /\ call' = ddaa_on_value_change(sliders')
    /\ out' = ddaa_dibujar_grafica(call'.args[1], call'.args[2], call'.args[3],
                                   call'.args[4], call'.args[5], call'.args[6])
    /\ plot_output' = <<out'>>
    /\ pc' = "redrawn"
    /\ UNCHANGED <<m_fijo, inicial>>

UINext == ActualizarBienes \/ ActualizarDinero \/ CambioDivisas \/ CambioDDAA

UISpec == UIInit /\ [][UINext]_vars


(***************************************************************************)
(* Properties                                                              *)
(***************************************************************************)
Drawn(fn) == pc = "drawn" /\ call.fn = fn

\* C1: goods market, 0 < t1 < 1: no fault, A = c0 + i0 + g0 + nx0,
\* alpha = 1 / (1 - c1*(1 - t1)) and Y_eq = A / (1 - c1*(1 - t1)), with
\* c0 = 50 and c1 = 0.6.
C1_EquilibrioBienes ==
    (Drawn("bienes") /\ RLt(Zero, call.args[2]) /\ RLt(call.args[2], One)) =>
        LET A == RAdd(RAdd(RAdd(Z(50), call.args[3]), call.args[1]), call.args[4])
            den == RSub(One, RMul(Q(6, 10), RSub(One, call.args[2])))
        IN  /\ out.fault = "none"
            /\ out.A = A
            /\ out.alpha = RDiv(One, den)
            /\ out.Y_eq = RDiv(A, den)

\* the example of C1: g0=200, t1=0.2, i0=150, nx0=100 drawn with A = 500 and
\* Y_eq = 500/0.52 = 12500/13, shown as 961.5
C1_Witness ==
    /\ Drawn("bienes")
    /\ call.args = <<Z(200), Q(1, 5), Z(150), Z(100)>>
    /\ out.A = Z(500)
    /\ out.Y_eq = Q(12500, 13)
    /\ out.label[2] = Q(9615, 10)

\* C2: money market, P # 0: no fault, Ms_real = Ms / P and
\* i_eq = (k*Y - Ms/P) / h, with k = 0.5 and h = 10.
C2_EquilibrioDinero ==
    (Drawn("dinero") /\ call.args[3] # Zero) =>
        /\ out.fault = "none"
        /\ out.Ms_real = RDiv(call.args[1], call.args[3])
        /\ out.i_eq = RDiv(RSub(RMul(Q(1, 2), call.args[2]),
                                RDiv(call.args[1], call.args[3])), Z(10))

\* the example of C2: Ms=150, Y=800, P=1 drawn with i_eq = 25, shown as 25.00
C2_Witness ==
    /\ Drawn("dinero")
    /\ call.args = <<Z(150), Z(800), One>>
    /\ out.i_eq = Z(25)
    /\ out.label[2] = Z(25)

\* C3: FX parity, m # 0: the foreign-return line at E_eq equals the national
\* rate, R_star + m*(Ee - E_eq) = R, and E_eq = Ee - (R - R_star)/m.
C3_EquilibrioDivisas ==
    (Drawn("divisas") /\ call.args[4] # Zero) =>
        /\ out.fault = "none"
        /\ IsFinite(out.E_eq)
        /\ RAdd(call.args[2], RMul(call.args[4], RSub(call.args[3], out.E_eq))) = call.args[1]
        /\ out.E_eq = RSub(call.args[3], RDiv(RSub(call.args[1], call.args[2]), call.args[4]))

\* a call with R # R_star and m # 0 drawn: R=5, R*=8, Ee=1, m=2 gives
\* E_eq = 1 + 3/2 = 5/2, marked at (5, 5/2)
C3_Witness ==
    /\ Drawn("divisas")
    /\ call.args = <<Z(5), Z(8), One, Z(2)>>
    /\ out.E_eq = Q(5, 2)
    /\ out.marker.drawn
    /\ out.marker.at = <<Z(5), Q(5, 2)>>

\* the sign of E_dd - E_aa at grid index i of a drawn DD-AA chart: -1, 0, 1,
\* and 2 where the difference is nan
SignoEn(i) ==
    LET a == out.E_dd[i]
        b == out.E_aa[i]
    IN  IF b = NaN THEN 2
        ELSE IF b = Inf THEN -1
        ELSE IF b = NegInf THEN 1
        ELSE Cmp(a, b)

\* the grid indices at which the sign of consecutive differences differs
Cambios == { i \in 0..198 : SignoEn(i) # SignoEn(i + 1) }

PrimerCambio == CHOOSE i \in Cambios : \A j \in Cambios : i <= j

DDAADrawn == Drawn("ddaa") /\ out.fault = "none"

\* C4: DD-AA: when the sign of consecutive differences flips somewhere, the
\* reported equilibrium is (Y_range[i], E_dd[i]) at the lowest such index i,
\* whatever sign changes follow it.
C4_PrimerCambioDeSigno ==
    (DDAADrawn /\ Cambios # {}) =>
        /\ out.Y_eq = Q(99500 + 2000 * PrimerCambio, 199)
        /\ out.E_eq = out.E_dd[PrimerCambio]
        /\ out.marker.drawn
        /\ out.marker.at = <<out.Y_eq, out.E_eq>>

\* a chart whose curves cross twice (sign changes at indices 69 and 155),
\* with the point of index 69 reported
C4_Witness ==
    /\ DDAADrawn
    /\ Cambios = {69, 155}
    /\ out.Y_eq = Q(99500 + 2000 * 69, 199)

\* C5: DD-AA, P # 0: no fault is raised, and when the difference never
\* changes sign Y_eq and E_eq are nan, the label is 'Equilibrio no
\* encontrado' and no marker is drawn.
C5_SinEquilibrio ==
    (Drawn("ddaa") /\ call.args[4] # Zero) =>
        /\ out.fault = "none"
        /\ (Cambios = {}) =>
              /\ IsNaN(out.Y_eq)
              /\ IsNaN(out.E_eq)
              /\ out.eq_label = <<"Equilibrio no encontrado">>
              /\ ~out.marker.drawn

\* slider values (G=100, T=0.5, Ms=200, P=2, R*=1, Ee=0.5) whose curves do
\* not cross on the grid, drawn without a marker
C5_Witness ==
    /\ DDAADrawn
    /\ call.args = <<Z(100), Q(1, 2), Z(200), Z(2), One, Q(1, 2)>>
    /\ Cambios = {}
    /\ ~out.marker.drawn

\* the parameters lie in the ranges of the six DD-AA sliders (lines 470-479)
EnRangoSliders ==
    /\ RLeq(Z(100), call.args[1]) /\ RLeq(call.args[1], Z(300))
    /\ RLeq(Q(1, 10), call.args[2]) /\ RLeq(call.args[2], Q(1, 2))
    /\ RLeq(Z(200), call.args[3]) /\ RLeq(call.args[3], Z(400))
    /\ RLeq(Q(1, 2), call.args[4]) /\ RLeq(call.args[4], Z(2))
    /\ RLeq(One, call.args[5]) /\ RLeq(call.args[5], Z(10))
    /\ RLeq(Q(1, 2), call.args[6]) /\ RLeq(call.args[6], Q(3, 2))

\* the spacing of the 200-point grid over [500, 2500]
Espaciado == Q(2000, 199)

\* |E_dd[i] - E_aa[i]| <= Espaciado at the grid index i of the reported Y_eq
ResiduoAcotado ==
    \A i \in 0..199 :
        (out.Y_eq = Q(99500 + 2000 * i, 199)) =>
            /\ IsFinite(out.E_aa[i])
            /\ RLeq(RSub(out.E_dd[i], Espaciado), out.E_aa[i])
            /\ RLeq(out.E_aa[i], RAdd(out.E_dd[i], Espaciado))

\* C6 as stated: whenever an equilibrium is reported, for any parameters,
\* |E_dd(Y_eq) - E_aa(Y_eq)| <= sample spacing.
C6_ResiduoSiempre == (DDAADrawn /\ out.marker.drawn) => ResiduoAcotado

\* C6, amended: for parameters within the ranges of the six sliders, a
\* reported equilibrium has |E_dd(Y_eq) - E_aa(Y_eq)| <= sample spacing.
C6_ResiduoEnRango ==
    (DDAADrawn /\ EnRangoSliders /\ out.marker.drawn) => ResiduoAcotado

\* the initial slider values drawn with the equilibrium of grid index 24
C6_Witness ==
    /\ DDAADrawn
    /\ call.args = <<Z(200), Q(1, 5), Z(300), One, Z(5), One>>
    /\ EnRangoSliders
    /\ out.marker.drawn
    /\ out.Y_eq = Q(99500 + 2000 * 24, 199)

\* C7: FX parity, m = 0: no fault, E_eq is nan, and no equilibrium marker
\* (hence no equilibrium value) is drawn.
C7_PendienteCero ==
    (Drawn("divisas") /\ call.args[4] = Zero) =>
        /\ out.fault = "none"
        /\ IsNaN(out.E_eq)
        /\ ~out.marker.drawn

\* a chart drawn with m = 0 and R = R* = 5, where the flat line and the
\* vertical coincide
C7_Witness ==
    /\ Drawn("divisas")
    /\ call.args = <<Z(5), Z(5), One, Zero>>
    /\ IsNaN(out.E_eq)

\* C8: goods market, 1 - c1*(1 - t1) = 0: no fault is raised.
C8_DenominadorCero ==
    (Drawn("bienes") /\ RSub(One, RMul(Q(6, 10), RSub(One, call.args[2]))) = Zero) =>
        out.fault = "none"

\* C9: money market, P = 0: no fault is raised.
C9_PrecioCero ==
    (Drawn("dinero") /\ call.args[3] = Zero) => out.fault = "none"

\* C10: DD-AA: wherever 1 + (R - R_star)/100 <= 0 on the grid, the AA value
\* there is undefined (nan), neither negative nor infinite.
C10_ParidadDegenerada ==
    DDAADrawn =>
        LET den == ddaa_den(ddaa_R(call.args[3], call.args[4]), call.args[5])
        IN  \A i \in 0..199 : RLeq(den[i], Zero) => IsNaN(out.E_aa[i])

\* the grid value of index i: 500 + i * 2000/199
EnRejilla(i) == Q(99500 + 2000 * i, 199)

\* C12 as stated: the DD-AA grid has 200 points over [500, 2500] and
\* consecutive points are 10 units of income apart.
C12_EspaciadoDiez ==
    DDAADrawn =>
        /\ DOMAIN ddaa_Y_range = 0..199
        /\ ddaa_Y_range[0] = Z(500)
        /\ ddaa_Y_range[199] = Z(2500)
        /\ \A i \in 0..198 : RSub(ddaa_Y_range[i + 1], ddaa_Y_range[i]) = Z(10)

\* C12, amended: the DD-AA grid has 200 points from 500 to 2500, both
\* included, consecutive points are 2000/199 (about 10.05) apart, and a
\* reported Y_eq is one of these points.
C12_EspaciadoRejilla ==
    DDAADrawn =>
        /\ DOMAIN ddaa_Y_range = 0..199
        /\ DOMAIN out.E_dd = 0..199
        /\ ddaa_Y_range[0] = Z(500)
        /\ ddaa_Y_range[199] = Z(2500)
        /\ \A i \in 0..198 : RSub(ddaa_Y_range[i + 1], ddaa_Y_range[i]) = Q(2000, 199)
        /\ out.marker.drawn => \E i \in 0..199 : out.Y_eq = EnRejilla(i)

\* a chart whose reported Y_eq is the grid point of index 116,
\* 500 + 116 * 2000/199 = 331500/199, no multiple of 10
C12_Witness ==
    /\ DDAADrawn
    /\ out.marker.drawn
    /\ out.Y_eq = Q(331500, 199)
    /\ out.Y_eq = EnRejilla(116)
    /\ RSub(ddaa_Y_range[117], out.Y_eq) = Q(2000, 199)

\* no sign change of consecutive differences below grid index i
SinCambioAntes(i) == \A j \in 0..(i - 1) : SignoEn(j) = SignoEn(j + 1)

\* C15: DD-AA: the reported index is the lowest i with
\* sign(d[i]) # sign(d[i+1]) and the pair is (Y_range[i], E_dd[i]); so a
\* difference that is zero at index j > 0 and nonzero before it has j - 1
\* reported, not j, and a touch (signs s, 0, s) is reported as an equilibrium.
C15_IndiceAntesDelCambio ==
    DDAADrawn =>
        /\ \A i \in 0..198 :
              (SignoEn(i) # SignoEn(i + 1) /\ SinCambioAntes(i)) =>
                  /\ out.idx[1] = i
                  /\ out.Y_eq = EnRejilla(i)
                  /\ out.E_eq = out.E_dd[i]
        /\ \A j \in 1..199 :
              (SignoEn(j) = 0 /\ SignoEn(j - 1) # 0 /\ SinCambioAntes(j - 1)) =>
                  /\ out.Y_eq = EnRejilla(j - 1)
                  /\ out.Y_eq # EnRejilla(j)
                  /\ out.marker.drawn
        /\ \A j \in 1..198 :
              (/\ SignoEn(j) = 0
               /\ SignoEn(j - 1) \in {-1, 1}
               /\ SignoEn(j + 1) = SignoEn(j - 1)
               /\ SinCambioAntes(j - 1)) =>
                  /\ out.marker.drawn
                  /\ out.marker.at = <<EnRejilla(j - 1), out.E_dd[j - 1]>>

\* a chart whose curves touch at grid index 100 without crossing (signs
\* 1, 0, 1 at indices 99, 100, 101): the point of index 99 is marked
C15_Witness ==
    /\ DDAADrawn
    /\ SignoEn(99) = 1 /\ SignoEn(100) = 0 /\ SignoEn(101) = 1
    /\ SinCambioAntes(99)
    /\ out.marker.drawn
    /\ out.Y_eq = EnRejilla(99)
    /\ out.E_eq = out.E_dd[99]

GraficaDeSliders ==
    CASE call.fn = "bienes" ->
            bienes_dibujar_grafica(sliders[1], sliders[2], sliders[3], sliders[4])
      [] call.fn = "dinero" -> dinero_dibujar_grafica(sliders[1], sliders[2], sliders[3])
      [] call.fn = "divisas" ->
            divisas_dibujar_grafica(sliders[1], sliders[2], sliders[3],
                                    inicial.call.args[4])
      [] call.fn = "ddaa" ->
            ddaa_dibujar_grafica(sliders[1], sliders[2], sliders[3],
                                 sliders[4], sliders[5], sliders[6])

\* C14: under UISpec, at construction and after every sequence of slider
\* changes the output widget holds exactly one chart, the one computed from
\* the values all sliders hold now (the previous chart is gone); the first
\* chart is that of the initial values; in the FX interface m is the value
\* given at construction.
C14_GraficaDeValoresActuales ==
    /\ Len(plot_output) = 1
    /\ plot_output[1] = GraficaDeSliders
    /\ out = plot_output[1]
    /\ pc = "drawn" => call = inicial.call
    /\ call.fn = "divisas" =>
           /\ m_fijo = inicial.call.args[4]
           /\ call.args[4] = m_fijo
    /\ call.fn # "divisas" => m_fijo = NoM

\* the FX interface built with (5, 5, 1), m = 2, after R* was moved to 8:
\* the chart shows E_eq = 5/2, no longer the initial E_eq = 1
C14_Witness ==
    /\ pc = "redrawn"
    /\ call.fn = "divisas"
    /\ inicial.call.args = <<Z(5), Z(5), One, Z(2)>>
    /\ inicial.out.E_eq = One
    /\ sliders = <<Z(5), Z(8), One>>
    /\ m_fijo = Z(2)
    /\ plot_output[1].E_eq = Q(5, 2)
    /\ plot_output[1].marker.drawn

====
